---- MODULE Spec2Model ----
(***************************************************************************)
(* State-machine model of the Cloudinary upscaling API (src/main.py):      *)
(* the two job endpoints /upscale/single and /upscale/batch, the pipeline  *)
(* CloudinaryUpscalingService.process_artwork_upscaling they both call,    *)
(* and the three external collaborators it talks to: the artwork_requests  *)
(* table (store), the image provider (assets) and the Gelato webhook.      *)
(* Every outbound call of one HTTP request is appended to `log`, in the    *)
(* order the code issues it.                                               *)
(***************************************************************************)
EXTENDS Integers, Sequences, FiniteSets, TLC

(***************************************************************************)
(* Config (src/main.py:40-55)                                              *)
(***************************************************************************)
MAX_FILE_SIZE_MB == 50
MIN_DIMENSION_POSTER == 2000
MIN_DIMENSION_APPAREL == 1500
\* 4.2 * 1000000 evaluates to the float 4200000.0 exactly
UPSCALE_PIXEL_LIMIT == 4200000
\* fallback width and height of get_image_info
DEFAULT_DIMENSION == 1024
\* 1024 * 1024, the divisor of file_size_mb
BYTES_PER_MB == 1048576

(***************************************************************************)
(* Bounds of the model                                                     *)
(***************************************************************************)
\* longest list submitted to /upscale/batch
MaxBatch == 2

None == [kind |-> "none"]

\* a column of the table that no update has set
Unset == "<unset>"

(***************************************************************************)
(* Rationals n/d (d > 0) stand for the floats the code compares: every     *)
(* quotient below is a ratio of integers under 2^27, far coarser than a    *)
(* double's resolution, so the float comparisons agree with the exact ones.*)
(***************************************************************************)
RatLess(a, b) == a[1] * b[2] < b[1] * a[2]

\* Python's min(a, b): b only when b < a
RatMin(a, b) == IF RatLess(b, a) THEN b ELSE a

(***************************************************************************)
(* Enums (src/main.py:58-68)                                               *)
(***************************************************************************)
ProductType == {"poster", "apparel", "canvas"}

UpscalingStatus == {"pending", "processing", "completed", "failed", "quality_issues"}

(***************************************************************************)
(* determine_product_type                                                  *)
(***************************************************************************)
apparel_keywords == {"hoodie", "t-shirt", "tshirt", "sweatshirt", "shirt", "apparel"}

canvas_keywords == {"canvas", "leinwand"}

\* The keywords that occur as substrings of title.lower(), for the titles
\* the model submits.
KeywordsIn(title) ==
    CASE title = "Cat Hoodie" -> {"hoodie"}
      [] title = "Canvas T-Shirt" -> {"canvas", "t-shirt", "shirt"}
      [] title = "Pet Canvas" -> {"canvas"}
      [] title = "Leinwand 30x40" -> {"leinwand"}
      [] OTHER -> {}

determine_product_type(product_title, variant_title) ==
    LET full_title == KeywordsIn(product_title) \cup KeywordsIn(variant_title)
    IN  IF full_title \cap apparel_keywords # {} THEN "apparel"
        ELSE IF full_title \cap canvas_keywords # {} THEN "canvas"
        ELSE "poster"

(***************************************************************************)
(* get_image_info: the provider's answer, or the defaults when the lookup  *)
(* raises.  reply.kind is "ok" or "raise".                                 *)
(***************************************************************************)
get_image_info(reply) ==
    IF reply.kind = "ok"
    THEN [width |-> reply.width, height |-> reply.height]
    ELSE [width |-> DEFAULT_DIMENSION, height |-> DEFAULT_DIMENSION]

(***************************************************************************)
(* create_upscaling_strategy                                               *)
(***************************************************************************)
transformations ==
    [apparel |-> [upscale |-> "e_upscale,w_2500,h_2500,c_fit,q_100,f_png",
                  enhance |-> "e_enhance,w_2500,h_2500,c_fit,q_100,f_png",
                  dimensions |-> [width |-> 2500, height |-> 2500]],
     poster  |-> [upscale |-> "e_upscale,w_3000,h_3000,c_fit,q_100,f_png",
                  enhance |-> "e_enhance,w_3000,h_3000,c_fit,q_100,f_png",
                  dimensions |-> [width |-> 3000, height |-> 3000]],
     canvas  |-> [upscale |-> "e_upscale,w_4000,h_4000,c_fit,q_100,f_png",
                  enhance |-> "e_enhance,w_4000,h_4000,c_fit,q_100,f_png",
                  dimensions |-> [width |-> 4000, height |-> 4000]]]

CanUpscaleInclusive(current_pixels) == current_pixels <= UPSCALE_PIXEL_LIMIT

CanUpscale(current_pixels) == current_pixels < UPSCALE_PIXEL_LIMIT

create_upscaling_strategy(art, image_info) ==
    LET product_type == determine_product_type(art.product_title, art.variant_title)
        current_pixels == image_info.width * image_info.height
        can_upscale == CanUpscale(current_pixels)
        config == transformations[product_type]
    IN  [can_upscale |-> can_upscale,
         product_type |-> product_type,
         current_pixels |-> current_pixels,
         recommended_transformation |->
             IF can_upscale THEN config.upscale ELSE config.enhance,
         target_dimensions |-> config.dimensions,
         quality_level |-> IF can_upscale THEN "upscaled_4x" ELSE "enhanced",
         estimated_processing_time |-> IF can_upscale THEN 60 ELSE 30]

(***************************************************************************)
(* validate_production_image and _calculate_quality_score                  *)
(***************************************************************************)
\* str.lower() on the format names the provider answers with
Lower(s) ==
    CASE s = "PNG" -> "png"
      [] s = "JPG" -> "jpg"
      [] OTHER -> s

file_size_mb(production_result) == <<production_result.bytes, BYTES_PER_MB>>

resolution_ratio(production_result, strat) ==
    RatMin(<<production_result.width, strat.target_dimensions.width>>,
           <<production_result.height, strat.target_dimensions.height>>)

ResolutionPenaltySwapped(ratio) ==
    IF RatLess(ratio, <<8, 10>>) THEN 15
    ELSE IF RatLess(ratio, <<9, 10>>) THEN 30
    ELSE 0

ResolutionPenalty(ratio) ==
    IF RatLess(ratio, <<8, 10>>) THEN 30
    ELSE IF RatLess(ratio, <<9, 10>>) THEN 15
    ELSE 0

_calculate_quality_score(production_result, strat) ==
    LET score == 100
                 - ResolutionPenalty(resolution_ratio(production_result, strat))
                 - (IF RatLess(<<MAX_FILE_SIZE_MB * 8, 10>>, file_size_mb(production_result))
                    THEN 10 ELSE 0)
                 - (IF Lower(production_result.format) # "png" THEN 5 ELSE 0)
    IN  IF score < 0 THEN 0 ELSE score

AllowedFormatsTypo == {"pgn", "jpg", "jpeg"}

AllowedFormats == {"png", "jpg", "jpeg"}

validate_production_image(production_result, strat) ==
    LET width == production_result.width
        height == production_result.height
        min_dimension == IF strat.product_type = "poster"
                         THEN MIN_DIMENSION_POSTER ELSE MIN_DIMENSION_APPAREL
        format_type == Lower(production_result.format)
        issues ==
            (IF width < min_dimension \/ height < min_dimension
             THEN <<"Aufloesung zu niedrig">> ELSE <<>>)
            \o (IF RatLess(<<MAX_FILE_SIZE_MB, 1>>, file_size_mb(production_result))
                THEN <<"Datei zu gross">> ELSE <<>>)
            \o (IF format_type \notin AllowedFormats
                THEN <<"Unerwartetes Format">> ELSE <<>>)
    IN  [is_valid |-> Len(issues) = 0,
         issues |-> issues,
         metrics |-> [width |-> width, height |-> height, format |-> format_type,
                      bytes |-> production_result.bytes],
         quality_score |-> _calculate_quality_score(production_result, strat)]

(***************************************************************************)
(* Exceptions are carried by their str(e).                                 *)
(***************************************************************************)
NoExc == "<no exception>"

\* the default error_message=None of _update_artwork_status
PyNone == "<None>"

Truthy(s) == s \notin {"", PyNone}

\* str(KeyError('secure_url')), raised by result['secure_url'] at the log line
\* of create_production_image when the answer carries no secure_url
KeyErrorMessage == "'secure_url'"

\* str(e) of the TypeError json.dumps raises
TypeErrorMessage == "Object of type ProductType is not JSON serializable"

StoreErrorMessage == "store unavailable"

(***************************************************************************)
(* json.dumps(asdict(x)): asdict turns a dataclass into a dict and leaves  *)
(* every other field value as it is; the encoder then raises TypeError on  *)
(* a value that is not a dict, list, str, int, float, bool or None.        *)
(* ProductType is a plain Enum (class ProductType(Enum)).                  *)
(***************************************************************************)
UpscalingStrategyFields ==
    [can_upscale |-> "bool", product_type |-> "ProductType", current_pixels |-> "int",
     recommended_transformation |-> "str", target_dimensions |-> "dict",
     quality_level |-> "str", estimated_processing_time |-> "int"]

ValidationResultFields ==
    [is_valid |-> "bool", issues |-> "list", metrics |-> "dict", quality_score |-> "float"]

JsonEncodable(py_type) ==
    py_type \in {"dict", "list", "str", "int", "float", "bool", "NoneType"}

json_dumps_raises(fields) == \E f \in DOMAIN fields : ~JsonEncodable(fields[f])

(***************************************************************************)
(* The rows of artwork_requests.  update(...).eq('request_id', id) sets    *)
(* the columns it is given and leaves the others.                          *)
(***************************************************************************)
RequestIds == {"r1", "r2"}

NewRow == [status |-> "pending", error_message |-> Unset, production |-> None]

\* _update_artwork_status: the update it sends, the table afterwards, and
\* the exception that leaves the function (none: the except clause logs it).
_update_artwork_status_propagating(st, request_id, status, error_message, store_ok) ==
    [update_data |-> [status |-> status,
                      error_message |-> IF Truthy(error_message) THEN error_message ELSE Unset],
     store |-> IF store_ok
               THEN [st EXCEPT ![request_id] =
                        [@ EXCEPT !.status = status,
                                  !.error_message =
                                      IF Truthy(error_message) THEN error_message ELSE @]]
               ELSE st,
     raised |-> IF store_ok THEN NoExc ELSE StoreErrorMessage]

_update_artwork_status_dropping(st, request_id, status, error_message, store_ok) ==
    [update_data |-> [status |-> status, error_message |-> Unset],
     store |-> IF store_ok THEN [st EXCEPT ![request_id] = [@ EXCEPT !.status = status]]
               ELSE st,
     raised |-> NoExc]

_update_artwork_status(st, request_id, status, error_message, store_ok) ==
    [update_data |-> [status |-> status,
                      error_message |-> IF Truthy(error_message) THEN error_message ELSE Unset],
     store |-> IF store_ok
               THEN [st EXCEPT ![request_id] =
                        [@ EXCEPT !.status = status,
                                  !.error_message =
                                      IF Truthy(error_message) THEN error_message ELSE @]]
               ELSE st,
     raised |-> NoExc]

\* _update_artwork_with_production_data: update_data is built, json.dumps
\* included, before the try; `issued` tells whether the update was sent.
_update_artwork_with_production_data(st, request_id, result, strat, valid, status, store_ok) ==
    IF json_dumps_raises(UpscalingStrategyFields) \/ json_dumps_raises(ValidationResultFields)
    THEN [issued |-> FALSE, store |-> st, raised |-> TypeErrorMessage]
    ELSE [issued |-> TRUE,
          store |-> IF store_ok
                    THEN [st EXCEPT ![request_id] =
                             [@ EXCEPT !.status = status,
                                       !.production = [result |-> result,
                                                       strategy |-> strat,
                                                       validation |-> valid]]]
                    ELSE st,
          raised |-> NoExc]

\* _notify_gelato: posts when the webhook URL is configured; a failed
\* delivery is logged, nothing is raised.
_notify_gelato(url_configured, delivered) ==
    [posted |-> url_configured, raised |-> NoExc]

(***************************************************************************)
(* create_production_image: one upload per call, to the public id          *)
(* f"{request_id}_production", with overwrite=True.                        *)
(***************************************************************************)
production_public_id(request_id) == <<request_id, "_production">>

\* The provider on an upload: an upload without public_id gets an id of the
\* provider's own; an upload to an id it holds replaces that asset when
\* overwrite is set and is ignored otherwise.  An asset remembers the
\* request_id of the artwork it was made for.
ProviderUpload(assets_now, request, request_id) ==
    LET id == IF request.public_id = <<>>
              THEN <<"generated", ToString(Cardinality(assets_now) + 1)>>
              ELSE request.public_id
        held == {a \in assets_now : a.public_id = id}
        asset == [public_id |-> id, request_id |-> request_id]
    IN  IF held = {} THEN assets_now \cup {asset}
        ELSE IF request.overwrite THEN (assets_now \ held) \cup {asset}
        ELSE assets_now

UploadRequest(public_id, strat) ==
    [public_id |-> public_id,
     folder |-> "portreo_artworks_production",
     transformation |-> strat.recommended_transformation,
     tags |-> <<"production", strat.quality_level, strat.product_type>>,
     overwrite |-> TRUE,
     resource_type |-> "image"]

create_production_image_unnamed(assets_now, art, strat, reply) ==
    [requests |-> <<UploadRequest(<<>>, strat)>>,
     assets |-> IF reply.kind = "raise" THEN assets_now
                ELSE ProviderUpload(assets_now, UploadRequest(<<>>, strat), art.request_id),
     result |-> IF reply.kind = "ok" THEN reply.result ELSE None,
     raised |-> CASE reply.kind = "ok" -> NoExc
                  [] reply.kind = "nourl" -> KeyErrorMessage
                  [] OTHER -> reply.error]

\* reply.kind: "ok" the asset and its metadata; "nourl" the asset, metadata
\* without secure_url; "raise" no asset, the uploader raises reply.error.
\* requests: the uploads the call issues, one, whatever the reply.
create_production_image(assets_now, art, strat, reply) ==
    LET request == UploadRequest(production_public_id(art.request_id), strat)
    IN  [requests |-> <<request>>,
         assets |-> IF reply.kind = "raise" THEN assets_now
                    ELSE ProviderUpload(assets_now, request, art.request_id),
         result |-> IF reply.kind = "ok" THEN reply.result ELSE None,
         raised |-> CASE reply.kind = "ok" -> NoExc
                      [] reply.kind = "nourl" -> KeyErrorMessage
                      [] OTHER -> reply.error]

(***************************************************************************)
(* What the endpoints are sent, and what the collaborators answer.         *)
(***************************************************************************)
AllKeys == {"request_id", "shopify_order_id", "product_title", "variant_title",
            "artwork_url", "pet_name", "status"}

\* the keys upscale_single_artwork reads with data[...]; variant_title and
\* status are read with data.get
SingleRequired == {"request_id", "shopify_order_id", "product_title", "artwork_url",
                   "pet_name"}

ProductTitles == {"Dog Poster", "Canvas T-Shirt", "Pet Canvas"}

VariantTitles == {"", "Leinwand 30x40"}

Item(keys, request_id, product_title, variant_title) ==
    [keys |-> keys, request_id |-> request_id, product_title |-> product_title,
     variant_title |-> variant_title]

SingleItems ==
    {Item(AllKeys, r, p, v) : r \in RequestIds, p \in ProductTitles, v \in VariantTitles}
    \cup {Item(AllKeys \ {"variant_title", "status"}, r, p, "") :
            r \in RequestIds, p \in ProductTitles}
    \cup {Item(AllKeys \ {"pet_name"}, r, "Dog Poster", "") : r \in RequestIds}

BatchItems ==
    {Item(AllKeys, "r1", "Dog Poster", ""),
     Item(AllKeys, "r2", "Canvas T-Shirt", ""),
     Item(AllKeys \ {"pet_name"}, "r1", "Dog Poster", ""),
     Item(AllKeys \ {"variant_title", "status"}, "r2", "Pet Canvas", "")}

SeqsUpTo(S, n) == UNION {[1..k -> S] : k \in 0..n}

BatchBodies ==
    {[has_artworks |-> FALSE, artworks |-> <<>>]}
    \cup {[has_artworks |-> TRUE, artworks |-> a] : a \in SeqsUpTo(BatchItems, MaxBatch)}

\* answers of cloudinary.api.resource
LookupReplies(endpoint) ==
    {[kind |-> "raise", width |-> 0, height |-> 0]}
    \cup {[kind |-> "ok", width |-> d[1], height |-> d[2]] :
            d \in IF endpoint = "single"
                  THEN {<<2000, 2099>>, <<2000, 2100>>, <<3500, 3500>>}
                  ELSE {<<3500, 3500>>}}

MinDimensionOf(strat) ==
    IF strat.product_type = "poster" THEN MIN_DIMENSION_POSTER ELSE MIN_DIMENSION_APPAREL

\* widths and heights around every threshold the validator has for the target
ResultDims(strat) ==
    LET t == strat.target_dimensions.width
        m == MinDimensionOf(strat)
    IN  {0, m - 1, m, (8 * t) \div 10 - 1, (8 * t) \div 10,
         (9 * t) \div 10 - 1, (9 * t) \div 10, t}

ResultBytes ==
    {40 * BYTES_PER_MB, 40 * BYTES_PER_MB + 1, 50 * BYTES_PER_MB, 50 * BYTES_PER_MB + 1}

ResultFormats == {"png", "PNG", "jpg", "webp"}

ProductionResult(w, h, b, f) == [width |-> w, height |-> h, bytes |-> b, format |-> f]

UploadReply(kind, error, result) == [kind |-> kind, error |-> error, result |-> result]

\* answers of cloudinary.uploader.upload
UploadReplies(endpoint, strat) ==
    LET t == strat.target_dimensions
    IN  IF endpoint = "single"
        THEN {UploadReply("ok", NoExc, ProductionResult(w, h, b, f)) :
                w \in ResultDims(strat), h \in ResultDims(strat),
                b \in ResultBytes, f \in ResultFormats}
             \cup {UploadReply("nourl", NoExc, None),
                   UploadReply("raise", "upstream error", None),
                   UploadReply("raise", "", None)}
        ELSE {UploadReply("ok", NoExc, ProductionResult(t.width, t.height, BYTES_PER_MB, "png")),
              UploadReply("ok", NoExc, ProductionResult(0, 0, BYTES_PER_MB, "webp")),
              UploadReply("nourl", NoExc, None),
              UploadReply("raise", "upstream error", None)}

(***************************************************************************)
(* State                                                                   *)
(***************************************************************************)
VARIABLES
    handler,            \* the endpoint serving the HTTP request: "idle", "single", "batch"
    pc,                 \* where the handler and the pipeline stand
    items,              \* the artwork dicts of the request body
    idx,                \* the item being processed (1 for /upscale/single)
    artwork,            \* the ArtworkRequest built from items[idx]
    image_info,         \* what get_image_info returned
    strategy,           \* locals of process_artwork_upscaling
    production_result,
    validation,
    exc,                \* str(e) of the exception the except clause has caught
    outcome,            \* how process_artwork_upscaling ended: returned or raised
    results,            \* the batch handler's results list
    response,           \* the HTTP response
    log,                \* outbound calls issued while serving the request, in order
    store,              \* the artwork_requests table
    assets,             \* the assets the provider holds
    attempts            \* per item, what the collaborators answered

vars == <<handler, pc, items, idx, artwork, image_info, strategy, production_result,
          validation, exc, outcome, results, response, log, store, assets, attempts>>

locals == <<image_info, strategy, production_result, validation>>

NewAttempt == [lookup |-> "none", reply |-> None, issues |-> "none"]

Init ==
    /\ handler = "idle"
    /\ pc = "idle"
    /\ items = <<>>
    /\ idx = 0
    /\ artwork = None
    /\ image_info = None
    /\ strategy = None
    /\ production_result = None
    /\ validation = None
    /\ exc = NoExc
    /\ outcome = None
    /\ results = <<>>
    /\ response = None
    /\ log = <<>>
    /\ store = [r \in RequestIds |-> NewRow]
    /\ assets = {}
    /\ attempts = <<>>

Event(op, i, request_id, status, error_message, detail) ==
    [op |-> op, idx |-> i, request_id |-> request_id, status |-> status,
     error_message |-> error_message, detail |-> detail]

ErrorResponse(error) == [success |-> FALSE, status_code |-> 500, body |-> error]

OkResponse(body) == [success |-> TRUE, status_code |-> 200, body |-> body]

\* jsonify raises on a result that carries asdict(strategy): Flask's encoder
\* knows no Enum either
jsonify_raises(result) ==
    "strategy" \in DOMAIN result /\ json_dumps_raises(UpscalingStrategyFields)

ArtworkRequest(data) ==
    [request_id |-> data.request_id, product_title |-> data.product_title,
     variant_title |-> IF "variant_title" \in data.keys THEN data.variant_title ELSE ""]

(***************************************************************************)
(* upscale_single_artwork, up to the call of the pipeline                  *)
(***************************************************************************)
SingleRequest(data) ==
    /\ pc = "idle"
    /\ handler' = "single"
    /\ items' = <<data>>
    /\ idx' = 1
    /\ IF SingleRequired \subseteq data.keys
       THEN /\ artwork' = ArtworkRequest(data)
            /\ attempts' = <<NewAttempt>>
            /\ pc' = "p_start"
            /\ response' = None
       ELSE /\ artwork' = None
            /\ attempts' = <<>>
            /\ pc' = "responded"
            /\ response' = ErrorResponse("KeyError")
    /\ UNCHANGED <<locals, exc, outcome, results, log, store, assets>>

(***************************************************************************)
(* process_artwork_upscaling                                               *)
(***************************************************************************)
SetProcessing ==
    /\ pc = "p_start"
    /\ \E store_ok \in BOOLEAN :
        LET w == _update_artwork_status(store, artwork.request_id, "processing",
                                        PyNone, store_ok)
        IN  /\ log' = Append(log, Event("status", idx, artwork.request_id,
                                        w.update_data.status,
                                        w.update_data.error_message, None))
            /\ store' = w.store
            /\ IF w.raised = NoExc
               THEN pc' = "p_strategy" /\ exc' = exc
               ELSE pc' = "p_except" /\ exc' = w.raised
    /\ UNCHANGED <<handler, items, idx, artwork, locals, outcome, results, response,
                   assets, attempts>>

CreateStrategy ==
    /\ pc = "p_strategy"
    /\ \E reply \in LookupReplies(handler) :
        /\ image_info' = get_image_info(reply)
        /\ strategy' = create_upscaling_strategy(artwork, get_image_info(reply))
        /\ attempts' = [attempts EXCEPT ![idx].lookup = reply.kind]
    /\ pc' = "p_upload"
    /\ UNCHANGED <<handler, items, idx, artwork, production_result, validation, exc,
                   outcome, results, response, log, store, assets>>

CreateProductionImage ==
    /\ pc = "p_upload"
    /\ \E reply \in UploadReplies(handler, strategy) :
        LET c == create_production_image(assets, artwork, strategy, reply)
        IN  /\ log' = log \o [j \in 1..Len(c.requests) |->
                                Event("upload", idx, artwork.request_id, "", Unset,
                                      c.requests[j])]
            /\ assets' = c.assets
            /\ attempts' = [attempts EXCEPT
                               ![idx].reply = [kind |-> reply.kind, error |-> reply.error]]
            /\ IF c.raised = NoExc
               THEN /\ production_result' = c.result
                    /\ pc' = "p_validate"
                    /\ UNCHANGED <<image_info, strategy, validation, exc>>
               ELSE /\ production_result' = None
                    /\ image_info' = None
                    /\ strategy' = None
                    /\ validation' = None
                    /\ exc' = c.raised
                    /\ pc' = "p_except"
    /\ UNCHANGED <<handler, items, idx, artwork, outcome, results, response, store>>

ValidateProductionImage ==
    /\ pc = "p_validate"
    /\ validation' = validate_production_image(production_result, strategy)
    /\ attempts' = [attempts EXCEPT
                       ![idx].issues = IF Len(validation'.issues) = 0
                                       THEN "empty" ELSE "nonempty"]
    /\ pc' = "p_record"
    /\ UNCHANGED <<handler, items, idx, artwork, image_info, strategy, production_result,
                   exc, outcome, results, response, log, store, assets>>

\* from final_status to the return: the production-data update, the result
\* dict, the webhook
RecordAndNotify ==
    /\ pc = "p_record"
    /\ \E store_ok \in BOOLEAN, url_configured \in BOOLEAN, delivered \in BOOLEAN :
        LET final_status == IF validation.is_valid THEN "completed" ELSE "quality_issues"
            u == _update_artwork_with_production_data(
                     store, artwork.request_id, production_result, strategy, validation,
                     final_status, store_ok)
            n == IF final_status = "completed"
                 THEN _notify_gelato(url_configured, delivered)
                 ELSE [posted |-> FALSE, raised |-> NoExc]
            written == IF u.issued
                       THEN Append(log, Event("production", idx, artwork.request_id,
                                              final_status, Unset, None))
                       ELSE log
            raised == IF u.raised # NoExc THEN u.raised ELSE n.raised
        IN  /\ store' = u.store
            /\ log' = IF u.raised = NoExc /\ n.posted
                      THEN Append(written, Event("webhook", idx, artwork.request_id, "",
                                                 Unset, None))
                      ELSE written
            /\ IF raised = NoExc
               THEN /\ outcome' = [kind |-> "returned",
                                   result |-> [request_id |-> artwork.request_id,
                                               status |-> final_status,
                                               strategy |-> strategy,
                                               validation |-> validation]]
                    /\ exc' = exc
                    /\ pc' = "p_done"
               ELSE /\ outcome' = outcome
                    /\ exc' = raised
                    /\ pc' = "p_except"
    /\ image_info' = None
    /\ strategy' = None
    /\ production_result' = None
    /\ validation' = None
    /\ UNCHANGED <<handler, items, idx, artwork, results, response, assets, attempts>>

\* the status the except clause writes
ExceptStatusProcessing == "processing"

ExceptStatus == "failed"

HandleException ==
    /\ pc = "p_except"
    /\ \E store_ok \in BOOLEAN :
        LET w == _update_artwork_status(store, artwork.request_id, ExceptStatus, exc,
                                        store_ok)
        IN  /\ log' = Append(log, Event("status", idx, artwork.request_id,
                                        w.update_data.status,
                                        w.update_data.error_message, None))
            /\ store' = w.store
            /\ outcome' = [kind |-> "raised",
                           error |-> IF w.raised = NoExc THEN exc ELSE w.raised]
    /\ exc' = NoExc
    /\ pc' = "p_done"
    /\ UNCHANGED <<handler, items, idx, artwork, locals, results, response, assets,
                   attempts>>

(***************************************************************************)
(* upscale_single_artwork, after the pipeline                              *)
(***************************************************************************)
SingleRespond ==
    /\ pc = "p_done"
    /\ handler = "single"
    /\ response' = IF outcome.kind = "raised" THEN ErrorResponse(outcome.error)
                   ELSE IF jsonify_raises(outcome.result) THEN ErrorResponse(TypeErrorMessage)
                   ELSE OkResponse(outcome.result)
    /\ pc' = "responded"
    /\ artwork' = None
    /\ UNCHANGED <<handler, items, idx, locals, exc, outcome, results, log, store, assets,
                   attempts>>

(***************************************************************************)
(* upscale_batch_artworks                                                  *)
(***************************************************************************)
BatchRequest(body) ==
    /\ pc = "idle"
    /\ handler' = "batch"
    /\ items' = body.artworks
    /\ IF body.has_artworks
       THEN /\ idx' = 1
            /\ pc' = "b_next"
            /\ response' = None
       ELSE /\ idx' = 0
            /\ pc' = "responded"
            /\ response' = ErrorResponse("KeyError")
    /\ UNCHANGED <<artwork, locals, exc, outcome, results, log, store, assets, attempts>>

\* ArtworkRequest(**artwork_data) raises TypeError unless the dict has
\* exactly the seven fields of the dataclass
BatchItemWellFormed(data) == data.keys = AllKeys

\* one turn of the for loop up to the call of the pipeline, or the response
\* after the last turn
BatchNext ==
    /\ pc = "b_next"
    /\ IF idx > Len(items)
       THEN /\ response' =
                  IF \E i \in 1..Len(results) : jsonify_raises(results[i])
                  THEN ErrorResponse(TypeErrorMessage)
                  ELSE OkResponse([results |-> results, total_processed |-> Len(results)])
            /\ pc' = "responded"
            /\ UNCHANGED <<artwork, attempts>>
       ELSE IF BatchItemWellFormed(items[idx])
       THEN /\ artwork' = ArtworkRequest(items[idx])
            /\ attempts' = Append(attempts, NewAttempt)
            /\ pc' = "p_start"
            /\ response' = None
       ELSE /\ response' = ErrorResponse("TypeError")
            /\ pc' = "responded"
            /\ UNCHANGED <<artwork, attempts>>
    /\ UNCHANGED <<handler, items, idx, locals, exc, outcome, results, log, store, assets>>

BatchFailedResultAnonymous(art, error) ==
    [request_id |-> "", status |-> "failed", error |-> error]

\* the dict the inner except clause appends
BatchFailedResult(art, error) ==
    [request_id |-> art.request_id, status |-> "failed", error |-> error]

BatchCollect ==
    /\ pc = "p_done"
    /\ handler = "batch"
    /\ results' = Append(results,
                         IF outcome.kind = "raised"
                         THEN BatchFailedResult(artwork, outcome.error)
                         ELSE outcome.result)
    /\ idx' = idx + 1
    /\ artwork' = None
    /\ outcome' = None
    /\ pc' = "b_next"
    /\ UNCHANGED <<handler, items, locals, exc, response, log, store, assets, attempts>>

Next ==
    \/ \E data \in SingleItems : SingleRequest(data)
    \/ \E body \in BatchBodies : BatchRequest(body)
    \/ SetProcessing
    \/ CreateStrategy
    \/ CreateProductionImage
    \/ ValidateProductionImage
    \/ RecordAndNotify
    \/ HandleException
    \/ SingleRespond
    \/ BatchNext
    \/ BatchCollect

Spec == Init /\ [][Next]_vars

(***************************************************************************)
(* Vocabulary of the properties                                            *)
(***************************************************************************)
\* the outbound calls of the attempt on item i, in order
AttemptEvents(i) == SelectSeq(log, LAMBDA e : e.idx = i)

IsStatusWrite(e) == e.op \in {"status", "production"}

StatusWrites(i) == SelectSeq(AttemptEvents(i), IsStatusWrite)

TerminalStatuses == {"completed", "quality_issues", "failed"}

\* process_artwork_upscaling has returned or raised for item i
AttemptEnded(i) == i < idx \/ pc \in {"p_done", "responded"}

Positions(evs, op) == {j \in 1..Len(evs) : evs[j].op = op}

\* the provider call of attempt i raised
UploadRaised(i) == attempts[i].reply.kind \in {"raise", "nourl"}

UploadError(i) ==
    IF attempts[i].reply.kind = "nourl" THEN KeyErrorMessage ELSE attempts[i].reply.error

LookupErrorMessage == "lookup failed"

(***************************************************************************)
(* C1: in every attempt the 'processing' write is issued before the        *)
(* transformation request, and an attempt that has ended has exactly one   *)
(* terminal status write (completed, quality_issues or failed), which is   *)
(* its last status write.                                                  *)
(***************************************************************************)
C1_ProcessingThenOneTerminalWrite ==
    \A i \in 1..Len(attempts) :
        LET evs == AttemptEvents(i)
            sw == StatusWrites(i)
        IN  /\ \A j \in Positions(evs, "upload") :
                  \E k \in 1..(j - 1) : evs[k].op = "status" /\ evs[k].status = "processing"
            /\ AttemptEnded(i) =>
                  /\ Len(sw) > 0
                  /\ sw[Len(sw)].status \in TerminalStatuses
                  /\ Cardinality({j \in 1..Len(sw) : sw[j].status \in TerminalStatuses}) = 1

\* an attempt that issued the transformation request has ended
C1_Witness ==
    /\ pc = "p_done"
    /\ Positions(AttemptEvents(idx), "upload") # {}
    /\ attempts[idx].reply.kind = "ok"

(***************************************************************************)
(* C2: when the transformation request succeeds and the validator returns  *)
(* an empty issue list, the job is written and returned as completed, and  *)
(* the webhook is fired after that write.                                  *)
(***************************************************************************)
C2_ValidJobCompletes ==
    (pc = "p_done" /\ attempts[idx].reply.kind = "ok" /\ attempts[idx].issues = "empty") =>
        LET evs == AttemptEvents(idx)
        IN  /\ outcome.kind = "returned"
            /\ outcome.result.status = "completed"
            /\ \E j \in Positions(evs, "production") :
                  /\ evs[j].status = "completed"
                  /\ \E k \in Positions(evs, "webhook") : j < k

(***************************************************************************)
(* C3: a webhook is sent only for a job that ends completed, at most once  *)
(* per attempt; a job with a non-empty issue list ends quality_issues      *)
(* without a webhook; a job that ends failed sends no webhook.             *)
(***************************************************************************)
C3_WebhookOnlyWhenCompleted ==
    pc = "p_done" =>
        LET evs == AttemptEvents(idx)
            sw == StatusWrites(idx)
            hooks == Positions(evs, "webhook")
        IN  /\ Cardinality(hooks) <= 1
            /\ hooks # {} => (outcome.kind = "returned" /\ outcome.result.status = "completed")
            /\ attempts[idx].issues = "nonempty" =>
                  /\ hooks = {}
                  /\ sw[Len(sw)].status = "quality_issues"
                  /\ outcome.kind = "returned"
                  /\ outcome.result.status = "quality_issues"
            /\ sw[Len(sw)].status = "failed" => hooks = {}

(***************************************************************************)
(* C4, as claimed: whenever the image-information lookup or the            *)
(* transformation request raises, the attempt's final write is `failed`    *)
(* carrying the message of an exception so raised, and no production data  *)
(* is written.                                                             *)
(***************************************************************************)
C4_AnyExceptionFailsWithItsMessage ==
    (pc = "p_done" /\ (attempts[idx].lookup = "raise" \/ UploadRaised(idx))) =>
        LET sw == StatusWrites(idx)
        IN  /\ sw[Len(sw)].status = "failed"
            /\ sw[Len(sw)].error_message \in
                  (IF attempts[idx].lookup = "raise" THEN {LookupErrorMessage} ELSE {})
                  \cup (IF UploadRaised(idx) THEN {UploadError(idx)} ELSE {})
            /\ Positions(AttemptEvents(idx), "production") = {}
            /\ store[artwork.request_id].production = None

(***************************************************************************)
(* C4, amended: whenever the transformation request raises, the attempt's  *)
(* final write is `failed`, carrying str(e) when str(e) is not empty, and  *)
(* no production data is written.  (An exception of the lookup stays       *)
(* inside get_image_info.)                                                 *)
(***************************************************************************)
C4_UploadExceptionFailsWithItsMessage ==
    (pc = "p_done" /\ UploadRaised(idx)) =>
        LET sw == StatusWrites(idx)
        IN  /\ sw[Len(sw)].status = "failed"
            /\ sw[Len(sw)].error_message =
                  (IF UploadError(idx) = "" THEN Unset ELSE UploadError(idx))
            /\ outcome = [kind |-> "raised", error |-> UploadError(idx)]
            /\ Positions(AttemptEvents(idx), "production") = {}
            /\ store[artwork.request_id].production = None

\* the provider raised with a message and the failed write reached the table
C4_Witness ==
    /\ pc = "p_done"
    /\ attempts[idx].reply = [kind |-> "raise", error |-> "upstream error"]
    /\ store[artwork.request_id].status = "failed"
    /\ store[artwork.request_id].error_message = "upstream error"

(***************************************************************************)
(* C5: a batch of well-formed items is answered with one result per item,  *)
(* in the order of the items; an item whose job failed is reported as      *)
(* failed with the error string of its own job, whatever happened to the   *)
(* other items.                                                            *)
(***************************************************************************)
C5_BatchIsolatesFailures ==
    (/\ handler = "batch"
     /\ pc = "responded"
     /\ Len(items) > 0
     /\ \A i \in 1..Len(items) : BatchItemWellFormed(items[i])) =>
        /\ response.success
        /\ response.body.total_processed = Len(items)
        /\ Len(response.body.results) = Len(items)
        /\ \A i \in 1..Len(items) :
              LET r == response.body.results[i]
              IN  /\ r.request_id = items[i].request_id
                  /\ r.status = "failed" => "error" \in DOMAIN r
                  /\ UploadRaised(i) => (r.status = "failed" /\ r.error = UploadError(i))
                  /\ (~UploadRaised(i) /\ r.status = "failed") =>
                        r.error \notin {"upstream error", KeyErrorMessage}

\* two items, the provider call of the first raises, that of the second does not
C5_Witness ==
    /\ handler = "batch"
    /\ pc = "responded"
    /\ Len(items) = 2
    /\ response.success
    /\ Len(response.body.results) = 2
    /\ attempts[1].reply.kind = "raise"
    /\ attempts[2].reply.kind = "ok"

(***************************************************************************)
(* C6: whether the store writes and the webhook succeed or fail, the job   *)
(* ends as it does when they all succeed: with the exception of the        *)
(* provider call or, after a successful provider call, with the one of the *)
(* production-data serialisation; never with an error of the store or the  *)
(* webhook.                                                                *)
(***************************************************************************)
C6_StoreFailuresDoNotChangeOutcome ==
    pc = "p_done" =>
        outcome = [kind |-> "raised",
                   error |-> IF UploadRaised(idx) THEN UploadError(idx)
                             ELSE TypeErrorMessage]

\* both status writes of the attempt failed: the row is as it was
C6_Witness ==
    /\ pc = "p_done"
    /\ Len(StatusWrites(idx)) = 2
    /\ store[artwork.request_id] = NewRow
    /\ outcome.kind = "raised"
    /\ outcome.error = "upstream error"

(***************************************************************************)
(* C7: when a submitted item lacks a required field, nothing has been      *)
(* written, requested or notified by the time the error response is        *)
(* returned.                                                               *)
(***************************************************************************)
C7_MalformedRequestChangesNothing ==
    (/\ pc = "responded"
     /\ \E i \in 1..Len(items) :
           IF handler = "single" THEN ~(SingleRequired \subseteq items[i].keys)
           ELSE ~BatchItemWellFormed(items[i])) =>
        /\ ~response.success
        /\ log = <<>>
        /\ store = [r \in RequestIds |-> NewRow]
        /\ assets = {}

(***************************************************************************)
(* C8: can_upscale is true exactly when width*height < 4,200,000; then the *)
(* strategy carries the category's upscale directive, upscaled_4x and 60,  *)
(* otherwise the enhance directive, enhanced and 30; the target dimensions *)
(* are those of the category.                                              *)
(***************************************************************************)
C8_StrategyFollowsPixelLimit ==
    pc = "p_upload" =>
        LET side == CASE strategy.product_type = "apparel" -> 2500
                      [] strategy.product_type = "poster" -> 3000
                      [] strategy.product_type = "canvas" -> 4000
            upscale == CASE strategy.product_type = "apparel" ->
                                "e_upscale,w_2500,h_2500,c_fit,q_100,f_png"
                         [] strategy.product_type = "poster" ->
                                "e_upscale,w_3000,h_3000,c_fit,q_100,f_png"
                         [] strategy.product_type = "canvas" ->
                                "e_upscale,w_4000,h_4000,c_fit,q_100,f_png"
            enhance == CASE strategy.product_type = "apparel" ->
                                "e_enhance,w_2500,h_2500,c_fit,q_100,f_png"
                         [] strategy.product_type = "poster" ->
                                "e_enhance,w_3000,h_3000,c_fit,q_100,f_png"
                         [] strategy.product_type = "canvas" ->
                                "e_enhance,w_4000,h_4000,c_fit,q_100,f_png"
            under == image_info.width * image_info.height < 4200000
        IN  /\ strategy.product_type \in {"poster", "apparel", "canvas"}
            /\ strategy.can_upscale = under
            /\ strategy.target_dimensions = [width |-> side, height |-> side]
            /\ strategy.recommended_transformation = (IF under THEN upscale ELSE enhance)
            /\ strategy.quality_level = (IF under THEN "upscaled_4x" ELSE "enhanced")
            /\ strategy.estimated_processing_time = (IF under THEN 60 ELSE 30)

\* exactly PIXEL_LIMIT pixels: enhance
C8_Witness ==
    /\ pc = "p_upload"
    /\ image_info.width * image_info.height = 4200000
    /\ ~strategy.can_upscale
    /\ strategy.product_type = "canvas"

(***************************************************************************)
(* C9: the quality score lies in [0, 100], and with byte size and format   *)
(* fixed no result of a smaller or equal resolution_ratio scores higher.   *)
(***************************************************************************)
C9_ScoreBoundedAndMonotone ==
    pc = "p_record" =>
        /\ validation.quality_score \in 0..100
        /\ \A w \in ResultDims(strategy), h \in ResultDims(strategy) :
              LET other == [production_result EXCEPT !.width = w, !.height = h]
                  t == strategy.target_dimensions
                  ratio == RatMin(<<production_result.width, t.width>>,
                                  <<production_result.height, t.height>>)
                  lower == RatMin(<<w, t.width>>, <<h, t.height>>)
              IN  ~RatLess(ratio, lower) =>
                      _calculate_quality_score(other, strategy) <= validation.quality_score

\* a result in the middle band, between results of both other bands
C9_Witness ==
    /\ pc = "p_record"
    /\ validation.quality_score = 85
    /\ production_result.format = "png"
    /\ production_result.width < production_result.height

(***************************************************************************)
(* C10, as claimed: a result of exactly the target dimensions, format      *)
(* "png" and a size under the maximum-size threshold is valid and scores   *)
(* 100.                                                                    *)
(***************************************************************************)
C10_TargetPngUnderMaxSizeScores100 ==
    (/\ pc = "p_record"
     /\ production_result.width = strategy.target_dimensions.width
     /\ production_result.height = strategy.target_dimensions.height
     /\ production_result.format = "png"
     /\ production_result.bytes < MAX_FILE_SIZE_MB * BYTES_PER_MB) =>
        (validation.is_valid /\ validation.quality_score = 100)

(***************************************************************************)
(* C10, amended: ... and a size of at most 80% of the maximum-size         *)
(* threshold is valid and scores 100.                                      *)
(***************************************************************************)
C10_TargetPngUnder80PercentScores100 ==
    (/\ pc = "p_record"
     /\ production_result.width = strategy.target_dimensions.width
     /\ production_result.height = strategy.target_dimensions.height
     /\ production_result.format = "png"
     /\ production_result.bytes * 10 <= MAX_FILE_SIZE_MB * BYTES_PER_MB * 8) =>
        (validation.is_valid /\ validation.issues = <<>> /\ validation.quality_score = 100)

C10_Witness ==
    /\ pc = "p_record"
    /\ strategy.product_type = "canvas"
    /\ production_result = ProductionResult(4000, 4000, 40 * BYTES_PER_MB, "png")
    /\ validation.is_valid
    /\ validation.quality_score = 100

(***************************************************************************)
(* C11: every call of the transformation requestor issues exactly one      *)
(* upload, also when the provider raises; the upload goes to the public id *)
(* made of the request_id and the suffix "_production", with overwrite     *)
(* set; so the provider never holds more than one production asset for a   *)
(* request_id, however many attempts were made for it.                     *)
(***************************************************************************)
C11_OneUploadOneAssetPerRequestId ==
    /\ \A i \in 1..Len(attempts) :
          LET evs == AttemptEvents(i)
              ups == Positions(evs, "upload")
          IN  /\ Cardinality(ups) = (IF attempts[i].reply.kind = "none" THEN 0 ELSE 1)
              /\ \A j \in ups :
                    /\ evs[j].detail.public_id = <<evs[j].request_id, "_production">>
                    /\ evs[j].detail.overwrite
    /\ \A r \in RequestIds : Cardinality({a \in assets : a.request_id = r}) <= 1

\* two attempts for one request_id, both uploads stored, one asset held
C11_Witness ==
    /\ handler = "batch"
    /\ pc = "responded"
    /\ Len(attempts) = 2
    /\ items[1].request_id = items[2].request_id
    /\ attempts[1].reply.kind = "ok"
    /\ attempts[2].reply.kind = "nourl"
    /\ Cardinality(Positions(log, "upload")) = 2
    /\ Cardinality({a \in assets : a.request_id = items[1].request_id}) = 1

====
